---- MODULE Spec2Model ----
(***************************************************************************)
(* bundle.py: inline the modules an entry file needs.                      *)
(*                                                                         *)
(* Text is modelled character by character: a string is a sequence of      *)
(* one-character strings, a file is the string of its bytes, a path is the *)
(* string of its characters.  The file system is a function from the       *)
(* paths of the existing regular files to their content.                   *)
(***************************************************************************)
EXTENDS Integers, Sequences, FiniteSets, TLC

VARIABLES
    fs,                     \* the file system: path -> content
    argv,                   \* the command line: [bin, module_names]
    run,                    \* which invocation of the tool this is
    pc,                     \* where the invocation stands
    out,                    \* the paths main() printed
    bin_path,               \* main(): bin_path
    module_paths,           \* main(): module_names after line 35
    existed_module_paths,   \* expand_modules(): existed_module_paths
    seen_modules,           \* expand_modules(): seen_modules
    q,                      \* expand_modules(): q
    todo,                   \* what `for path in seen_modules` has still to visit
    opened,                 \* log of the open() calls of this invocation
    writes,                 \* log of the bin_file.write() calls of this invocation
    before                  \* the file system when this invocation started

vars == <<fs, argv, run, pc, out, bin_path, module_paths, existed_module_paths,
          seen_modules, q, todo, opened, writes, before>>

----------------------------------------------------------------------------
(* Bounds of the model.                                                    *)

MaxSeeds == 2
MaxRuns == 2
MaxLen == 5
MaxOpens == 12

----------------------------------------------------------------------------
(* Strings.                                                                *)

NL == <<"\n">>
EXT == <<".", "r", "s">>
SRC_FOLDER == <<"s", "r", "c">>
BIN_FOLDER == SRC_FOLDER \o <<"/", "b", "i", "n">>
PUB_MOD == <<"p", "u", "b", " ", "m", "o", "d", " ">>
OPEN_BRACE == <<" ", "{">>
USE_CRATE == <<"u", "s", "e", " ", "c", "r", "a", "t", "e", ":", ":">>
COLONS == <<":", ":">>
COMMENT == <<"/", "/">>
SKIP_ATTR == <<"#", "[", "r", "u", "s", "t", "f", "m", "t", ":", ":", "s", "k", "i", "p", "]">>

\* Path(dir) / Path(name), for the relative names without "." or ".." parts
\* that the model uses.
Join(dir, name) == dir \o <<"/">> \o name

\* s[-3:] != '.rs' completed with the extension (lines 21-22, 29-30).
AddExt(name) ==
    IF Len(name) < 3 \/ SubSeq(name, Len(name) - 2, Len(name)) # EXT
    THEN name \o EXT ELSE name

\* SRC_FOLDER / Path(module_name + ".rs") (lines 62, 83).
ModulePath(module_name) == Join(SRC_FOLDER, module_name \o EXT)

\* path.name[:-3] (line 97): the last component without its last 3 characters.
Stem(path) ==
    LET slashes == {i \in 1..Len(path) : path[i] = "/"}
        from == IF slashes = {} THEN 1
                ELSE 1 + CHOOSE i \in slashes : \A j \in slashes : j <= i
    IN SubSeq(path, from, Len(path) - 3)

\* The elements of a sequence.
Range(s) == {s[i] : i \in DOMAIN s}

\* os.path.isfile(path)
IsFile(path) == path \in DOMAIN fs

\* sub in s
Contains(s, sub) ==
    \E i \in 1..(Len(s) - Len(sub) + 1) : SubSeq(s, i, i + Len(sub) - 1) = sub

\* s.startswith(prefix)
StartsWith(s, prefix) ==
    Len(s) >= Len(prefix) /\ SubSeq(s, 1, Len(prefix)) = prefix

\* The regular expression class \w, over the characters the model uses.
IsWord(ch) ==
    ch \in {"a", "b", "c", "d", "e", "f", "g", "h", "i", "j", "k", "l", "m",
            "n", "o", "p", "q", "r", "s", "t", "u", "v", "w", "x", "y", "z",
            "F", "_", "0", "1"}

\* The regular expression class \s.
IsSpace(ch) == ch \in {" ", "\t", "\n", "\r", "\f"}

\* `for line in file`: the lines of a text, each with its terminator.
RECURSIVE SplitLines(_)
SplitLines(s) ==
    IF s = <<>> THEN <<>>
    ELSE LET ends == {i \in 1..Len(s) : s[i] = "\n"}
         IN IF ends = {} THEN <<s>>
            ELSE LET k == CHOOSE i \in ends : \A j \in ends : i <= j
                 IN <<SubSeq(s, 1, k)>> \o SplitLines(SubSeq(s, k + 1, Len(s)))

\* ModMatchEnd with a lazy `.+?`: the match ends at the first " {".
ModMatchEndFirst(line) ==
    LET ends == {e \in 11..Len(line) :
                    /\ SubSeq(line, e - 1, e) = OPEN_BRACE
                    /\ \A j \in 9..(e - 2) : line[j] # "\n"}
    IN IF StartsWith(line, PUB_MOD) /\ ends # {}
       THEN CHOOSE e \in ends : \A f \in ends : e <= f
       ELSE 0

\* re.match(r"pub mod .+ {", line).end(), 0 for no match.  `.+` is greedy and
\* does not cross a newline: the match ends at the last " {" it can reach.
ModMatchEnd(line) ==
    LET ends == {e \in 11..Len(line) :
                    /\ SubSeq(line, e - 1, e) = OPEN_BRACE
                    /\ \A j \in 9..(e - 2) : line[j] # "\n"}
    IN IF StartsWith(line, PUB_MOD) /\ ends # {}
       THEN CHOOSE e \in ends : \A f \in ends : f <= e
       ELSE 0

\* line[match.start() + 8:match.end() - 2] (line 61)
ModMatchName(line) == SubSeq(line, 0 + 8 + 1, ModMatchEnd(line) - 2)

\* The length of the longest run of \w characters of line from position i.
RECURSIVE WordRun(_, _)
WordRun(line, i) ==
    IF i <= Len(line) /\ IsWord(line[i]) THEN 1 + WordRun(line, i + 1) ELSE 0

\* re.match(r"use crate::(\w*)::", line).end(), 0 for no match.
RefMatchEnd(line) ==
    IF StartsWith(line, USE_CRATE)
    THEN LET e == Len(USE_CRATE) + WordRun(line, Len(USE_CRATE) + 1)
         IN IF e + 2 <= Len(line) /\ SubSeq(line, e + 1, e + 2) = COLONS
            THEN e + 2 ELSE 0
    ELSE 0

\* line[match.start() + 11:match.end() - 2] (line 82)
RefMatchName(line) == SubSeq(line, 0 + 11 + 1, RefMatchEnd(line) - 2)

\* HasComment as line.startswith("//").
HasCommentAtStart(line) == StartsWith(line, COMMENT)

\* "//" in line (line 103)
HasComment(line) == Contains(line, COMMENT)

\* line.rstrip('\n')
RECURSIVE RStripNL(_)
RStripNL(s) ==
    IF s # <<>> /\ s[Len(s)] = "\n" THEN RStripNL(SubSeq(s, 1, Len(s) - 1)) ELSE s

\* The text after the \s+ match that starts s.
RECURSIVE DropSpaces(_)
DropSpaces(s) ==
    IF s # <<>> /\ IsSpace(Head(s)) THEN DropSpaces(Tail(s)) ELSE s

\* re.sub('\s+', ' ', s)
RECURSIVE ReSub(_)
ReSub(s) ==
    IF s = <<>> THEN <<>>
    ELSE IF IsSpace(Head(s)) THEN <<" ">> \o ReSub(DropSpaces(Tail(s)))
    ELSE <<Head(s)>> \o ReSub(Tail(s))

----------------------------------------------------------------------------
(* The inputs: command lines and file systems.                             *)

ENTRY_NAME == <<"m", "a", "i", "n">>
ENTRY_PATH == Join(BIN_FOLDER, AddExt(ENTRY_NAME))

A == <<"a">>
B == <<"b">>
C == <<"c">>
ModuleNames == {A, B, C}

\* Names given on the command line, with and without the extension.
SeedNames == {A, AddExt(A), B}

\* A line that refers to module n, and one that only looks like it
\* (re.match anchors the pattern at the start of the line).
LineUse(n) == USE_CRATE \o n \o <<":", ":", "F", ";", "\n">>
LineIndented == <<"\t">> \o LineUse(C)

ModuleBodies ==
    { LineIndented, LineUse(A), LineUse(B), LineUse(C),
      LineUse(B) \o LineIndented \o LineUse(C) }

MAIN_FN == <<"f", "n", " ", "m", "a", "i", "n", "(", ")", " ", "{", "}", "\n">>

\* Entry files: without an inline module, and with module b inline already.
EntryBodies == { MAIN_FN, PUB_MOD \o B \o OPEN_BRACE \o NL \o <<"}">> \o NL \o MAIN_FN }

\* Sequences over S of length at most n.
SeqsUpTo(S, n) == UNION {[1..k -> S] : k \in 0..n}

\* Local state of an invocation that has not started.
Fresh ==
    /\ pc = "start"
    /\ out = <<>>
    /\ bin_path = <<>>
    /\ module_paths = <<>>
    /\ existed_module_paths = {}
    /\ seen_modules = {}
    /\ q = <<>>
    /\ todo = {}
    /\ opened = <<>>
    /\ writes = <<>>

\* Module graphs: any of the three module files may be missing, the entry
\* file may be missing, the seeds may repeat.
Init ==
    /\ \E present \in SUBSET ModuleNames :
         \E bodies \in [present -> ModuleBodies] :
           \E entry \in EntryBodies \cup {<<>>} :
             fs = [p \in (IF entry = <<>> THEN {} ELSE {ENTRY_PATH})
                          \cup {ModulePath(n) : n \in present} |->
                       IF p = ENTRY_PATH THEN entry
                       ELSE bodies[CHOOSE n \in present : ModulePath(n) = p]]
    /\ argv \in [bin : {ENTRY_NAME}, module_names : SeqsUpTo(SeedNames, MaxSeeds)]
    /\ run = 1
    /\ before = fs
    /\ Fresh

----------------------------------------------------------------------------
(* main() and expand_modules().                                            *)

\* FirstMissing that checks the entry file and the first seed only.
FirstMissingOfTwo(paths) ==
    LET bad == {i \in DOMAIN paths : i <= 2 /\ ~IsFile(paths[i])}
    IN IF bad = {} THEN 0 ELSE CHOOSE i \in bad : \A j \in bad : i <= j

\* The first path of the sequence that is no regular file, 0 when all are.
FirstMissing(paths) ==
    LET bad == {i \in DOMAIN paths : ~IsFile(paths[i])}
    IN IF bad = {} THEN 0 ELSE CHOOSE i \in bad : \A j \in bad : i <= j

\* main(), lines 9-50: complete the names, check that the files exist, and
\* either report the first missing one or go on to expand_modules().
Main ==
    /\ pc = "start"
    /\ LET bp == Join(BIN_FOLDER, AddExt(argv.bin))
           paths == [i \in DOMAIN argv.module_names |->
                        Join(SRC_FOLDER, AddExt(argv.module_names[i]))]
           checked == <<bp>> \o paths
           bad == FirstMissing(checked)
       IN /\ bin_path' = bp
          /\ module_paths' = paths
          /\ IF bad # 0
             THEN /\ out' = Append(out, checked[bad])
                  /\ pc' = "invalid"
             ELSE /\ out' = out
                  /\ pc' = "discover"
    /\ UNCHANGED <<fs, argv, run, existed_module_paths, seen_modules, q, todo,
                   opened, writes, before>>

\* The modules the lines of a text declare inline (lines 57-63).
Embedded(text) ==
    {ModulePath(ModMatchName(line)) :
        line \in {l \in Range(SplitLines(text)) : ModMatchEnd(l) # 0}}

\* Unseen without the seen-set.
UnseenAlways(path, seen) == TRUE

\* Whether line 85 takes the module for a new one.
Unseen(path, seen) == path \notin seen

\* ScanRefs that leaves the loop at the first reference it finds.
ScanFirstRef(lines, seen, frontier) ==
    LET hits == {i \in DOMAIN lines : RefMatchEnd(lines[i]) # 0}
    IN IF hits = {} THEN [seen |-> seen, q |-> frontier]
       ELSE LET first == CHOOSE i \in hits : \A j \in hits : i <= j
                module_path == ModulePath(RefMatchName(lines[first]))
            IN IF module_path \in seen THEN [seen |-> seen, q |-> frontier]
               ELSE [seen |-> seen \cup {module_path}, q |-> Append(frontier, module_path)]

\* ScanRefs that marks a module seen and forgets to put it on the frontier.
ScanRefsNoPush(lines, seen, frontier) ==
    [seen |-> seen \cup {ModulePath(RefMatchName(lines[i])) :
                            i \in {j \in DOMAIN lines : RefMatchEnd(lines[j]) # 0}},
     q |-> frontier]

\* The for loop of lines 78-87 over the lines of one module file: the
\* seen-set and the frontier after it, as [seen, q].
RECURSIVE ScanRefs(_, _, _)
ScanRefs(lines, seen, frontier) ==
    IF lines = <<>> THEN [seen |-> seen, q |-> frontier]
    ELSE LET line == Head(lines)
             module_path == ModulePath(RefMatchName(line))
         IN IF RefMatchEnd(line) # 0 /\ Unseen(module_path, seen)
            THEN ScanRefs(Tail(lines), seen \cup {module_path},
                          Append(frontier, module_path))
            ELSE ScanRefs(Tail(lines), seen, frontier)

\* Lines 54-71: read the entry file for the modules it declares inline,
\* then start the traversal from the seeds.
Discover ==
    /\ pc = "discover"
    /\ opened' = Append(opened, <<bin_path, "r">>)
    /\ existed_module_paths' = Embedded(fs[bin_path])
    /\ seen_modules' = Range(module_paths)
    /\ q' = module_paths
    /\ pc' = "traverse"
    /\ UNCHANGED <<fs, argv, run, out, bin_path, module_paths, todo, writes, before>>

\* q.pop() (line 74): what stays in the list.
AfterPop(frontier) == SubSeq(frontier, 1, Len(frontier) - 1)

\* One turn of the while loop, lines 73-87: pop a path, open its file (the
\* open raises when there is none) and add the modules it refers to.
Pop ==
    /\ pc = "traverse"
    /\ q # <<>>
    /\ Len(opened) < MaxOpens
    /\ LET path == q[Len(q)]
       IN /\ opened' = Append(opened, <<path, "r">>)
          /\ IF ~IsFile(path)
             THEN /\ pc' = "crashed"
                  /\ q' = AfterPop(q)
                  /\ seen_modules' = seen_modules
             ELSE LET r == ScanRefs(SplitLines(fs[path]), seen_modules, AfterPop(q))
                  IN /\ pc' = "traverse"
                     /\ q' = r.q
                     /\ seen_modules' = r.seen
    /\ UNCHANGED <<fs, argv, run, out, bin_path, module_paths,
                   existed_module_paths, todo, writes, before>>

\* bin_file.write(text) for each text of the sequence, in order.
Concat(texts) ==
    LET RECURSIVE cat(_)
        cat(k) == IF k = 0 THEN <<>> ELSE cat(k - 1) \o texts[k]
    IN cat(Len(texts))

\* Lines 90-91: the frontier is empty; open the entry file for appending
\* and write a newline.
EmitOpen ==
    /\ pc = "traverse"
    /\ q = <<>>
    /\ opened' = Append(opened, <<bin_path, "a">>)
    /\ writes' = Append(writes, NL)
    /\ fs' = [fs EXCEPT ![bin_path] = @ \o NL]
    /\ todo' = seen_modules
    /\ pc' = "emit"
    /\ UNCHANGED <<argv, run, out, bin_path, module_paths, existed_module_paths,
                   seen_modules, q, before>>

\* IsEmbedded that never skips.
IsEmbeddedNever(path, existed) == FALSE

\* Line 94: the module is in the entry file already.
IsEmbedded(path, existed) == path \in existed

\* f'#[rustfmt::skip]\npub mod {name} {{' (line 99)
BlockHead(name) == SKIP_ATTR \o NL \o PUB_MOD \o name \o OPEN_BRACE

\* '}\n' (line 108)
BlockEnd == <<"}", "\n">>

\* What line 106 writes for a line of the module file.
Compact(line) == ReSub(RStripNL(line))

\* BlockWrites that ends the opening line and every line of the module.
BlockWritesPerLine(name, text) ==
    LET kept == SelectSeq(SplitLines(text), LAMBDA l : ~HasComment(l))
    IN <<BlockHead(name) \o NL>> \o [i \in DOMAIN kept |-> Compact(kept[i]) \o NL]
       \o <<BlockEnd>>

\* The write calls of lines 99-108 for a module file with this text.
BlockWrites(name, text) ==
    LET kept == SelectSeq(SplitLines(text), LAMBDA l : ~HasComment(l))
    IN <<BlockHead(name)>> \o [i \in DOMAIN kept |-> Compact(kept[i])] \o <<BlockEnd>>

\* One turn of the for loop, lines 93-108, over the set seen_modules (in no
\* particular order): skip a module the entry file has, append a block for
\* any other.
EmitModule ==
    /\ pc = "emit"
    /\ \E path \in todo :
         /\ todo' = todo \ {path}
         /\ IF IsEmbedded(path, existed_module_paths)
            THEN UNCHANGED <<fs, opened, writes, pc>>
            ELSE /\ opened' = Append(opened, <<path, "r">>)
                 /\ IF ~IsFile(path)
                    THEN /\ writes' = Append(writes, BlockHead(Stem(path)))
                         /\ fs' = [fs EXCEPT ![bin_path] = @ \o BlockHead(Stem(path))]
                         /\ pc' = "crashed"
                    ELSE LET w == BlockWrites(Stem(path), fs[path])
                         IN /\ writes' = writes \o w
                            /\ fs' = [fs EXCEPT ![bin_path] = @ \o Concat(w)]
                            /\ pc' = pc
    /\ UNCHANGED <<argv, run, out, bin_path, module_paths, existed_module_paths,
                   seen_modules, q, before>>

\* Line 110 and line 50: every module of the set was visited.
Return ==
    /\ pc = "emit"
    /\ todo = {}
    /\ pc' = "done"
    /\ UNCHANGED <<fs, argv, run, out, bin_path, module_paths, existed_module_paths,
                   seen_modules, q, todo, opened, writes, before>>

\* The tool is run again with the same command line (lines 112-113): nothing
\* is kept from one invocation to the next but the files.
Rerun ==
    /\ pc = "done"
    /\ run < MaxRuns
    /\ run' = run + 1
    /\ before' = fs
    /\ pc' = "start"
    /\ out' = <<>>
    /\ bin_path' = <<>>
    /\ module_paths' = <<>>
    /\ existed_module_paths' = {}
    /\ seen_modules' = {}
    /\ q' = <<>>
    /\ todo' = {}
    /\ opened' = <<>>
    /\ writes' = <<>>
    /\ UNCHANGED <<fs, argv>>

Next == Main \/ Discover \/ Pop \/ EmitOpen \/ EmitModule \/ Return \/ Rerun

Spec == Init /\ [][Next]_vars

----------------------------------------------------------------------------
(* Module texts, character by character: one seed module a whose file is   *)
(* any text of at most MaxLen characters, and an entry file without any    *)
(* inline module.                                                          *)

Alphabet == {"x", " ", "\t", "\n", "/", "{"}

InitText ==
    /\ \E text \in SeqsUpTo(Alphabet, MaxLen) :
         fs = [p \in {ENTRY_PATH, ModulePath(A)} |->
                  IF p = ENTRY_PATH THEN MAIN_FN ELSE text]
    /\ argv = [bin |-> ENTRY_NAME, module_names |-> <<A>>]
    /\ run = 1
    /\ before = fs
    /\ Fresh

SpecText == InitText /\ [][Next]_vars

----------------------------------------------------------------------------
(* What the specification says, stated without the program's operators.    *)

\* The modules a line refers to: the line is use crate:: then a name made
\* of word characters, then :: and anything.
RefNames(line) ==
    LET at == Len(USE_CRATE) + 1
    IN IF ~StartsWith(line, USE_CRATE) THEN {}
       ELSE {SubSeq(line, at, k) :
                k \in {j \in (at - 1)..(Len(line) - 2) :
                          /\ \A i \in at..j : IsWord(line[i])
                          /\ line[j + 1] = ":"
                          /\ line[j + 2] = ":"}}

\* The modules the lines of a file refer to; a file that does not exist
\* refers to none.
References(path) ==
    IF path \notin DOMAIN fs THEN {}
    ELSE {Join(SRC_FOLDER, n \o EXT) :
             n \in UNION {RefNames(line) : line \in Range(SplitLines(fs[path]))}}

\* The modules reachable from `new` by References, added to `found`.
RECURSIVE Reach(_, _)
Reach(found, new) ==
    IF new = {} THEN found
    ELSE Reach(found \cup new,
               UNION {References(p) : p \in new} \ (found \cup new))

\* The transitive closure of a set of modules under References.
Closure(S) == Reach({}, S)

\* The seed modules of the command line.
Seeds == {Join(SRC_FOLDER, AddExt(argv.module_names[i])) : i \in DOMAIN argv.module_names}

\* The required closure of this invocation.
Required == Closure(Seeds)

\* The traversal loop is over: the frontier was found empty.
TraversalOver == pc \in {"emit", "done"} \/ (pc = "traverse" /\ q = <<>>)

\* The files opened for reading during the traversal phase, in order: the
\* opens after the first (the entry file's) and before the one for appending.
TraversalOpens ==
    LET app == {i \in DOMAIN opened : opened[i][2] = "a"}
        last == IF app = {} THEN Len(opened) ELSE (CHOOSE i \in app : TRUE) - 1
    IN [i \in 1..(last - 1) |-> opened[i + 1][1]]

\* The module files opened in the emit phase, in order: one per block.
Emitted ==
    LET app == {i \in DOMAIN opened : opened[i][2] = "a"}
    IN IF app = {} THEN <<>>
       ELSE LET k == CHOOSE i \in app : TRUE
            IN [i \in 1..(Len(opened) - k) |-> opened[k + i][1]]

\* A sequence without a repeated element.
NoRepeat(s) == \A i, j \in DOMAIN s : s[i] = s[j] => i = j

\* The line holds the comment marker.
Marked(line) == \E i \in 1..(Len(line) - 1) : line[i] = "/" /\ line[i + 1] = "/"

\* The line without its terminator.
Unterminated(line) ==
    IF line # <<>> /\ line[Len(line)] = "\n" THEN SubSeq(line, 1, Len(line) - 1) ELSE line

\* The text with every maximal run of whitespace replaced by one space:
\* of every run the first character stays, as a space.
Collapsed(t) ==
    LET stay == {i \in DOMAIN t : ~IsSpace(t[i]) \/ i = 1 \/ ~IsSpace(t[i - 1])}
        RECURSIVE pick(_)
        pick(i) == IF i > Len(t) THEN <<>>
                   ELSE IF i \in stay
                        THEN <<IF IsSpace(t[i]) THEN " " ELSE t[i]>> \o pick(i + 1)
                        ELSE pick(i + 1)
    IN pick(1)

\* What each retained line of a module text contributes to its block.
Contributions(text) ==
    LET kept == SelectSeq(SplitLines(text), LAMBDA l : ~Marked(l))
    IN [i \in DOMAIN kept |-> Collapsed(Unterminated(kept[i]))]

\* The text appended to the entry file by this invocation.
Appended ==
    SubSeq(fs[bin_path], Len(before[bin_path]) + 1, Len(fs[bin_path]))

\* The two lines of the block of a module: the attribute, and the opening,
\* every contribution and the closing brace in one line.
BlockLines(path) ==
    << SKIP_ATTR \o NL,
       PUB_MOD \o Stem(path) \o OPEN_BRACE \o Concat(Contributions(fs[path]))
           \o <<"}">> \o NL >>

\* The block of a module with a line for the opening, for each contribution
\* and for the closing brace.
BlockLinesPerLine(path) ==
    << SKIP_ATTR \o NL, PUB_MOD \o Stem(path) \o OPEN_BRACE \o NL >>
    \o [i \in DOMAIN Contributions(fs[path]) |-> Contributions(fs[path])[i] \o NL]
    \o << <<"}">> \o NL >>

PathA == Join(SRC_FOLDER, A \o EXT)
PathB == Join(SRC_FOLDER, B \o EXT)
PathC == Join(SRC_FOLDER, C \o EXT)

\* Modules a and b refer to each other and to nothing else, and the seeds
\* are among them.
TwoCycle ==
    /\ Seeds # {}
    /\ Seeds \subseteq {PathA, PathB}
    /\ References(PathA) = {PathB}
    /\ References(PathB) = {PathA}

\* The turns the traversal loop can take: one for every seed listed and one
\* for every other module of the closure.
TurnBound == Len(argv.module_names) + Cardinality(Required \ Seeds)

\* The paths main() checks: the entry file, then the seeds in order.
Checked ==
    <<Join(BIN_FOLDER, AddExt(argv.bin))>>
    \o [i \in DOMAIN argv.module_names |-> Join(SRC_FOLDER, AddExt(argv.module_names[i]))]

----------------------------------------------------------------------------
(* The claims.                                                             *)

\* C1: when the traversal is over, seen_modules is exactly the transitive
\* closure of the seeds under "a line starts with use crate::X::" (every
\* seed, every module reachable from a seed, nothing else), whatever the
\* order of the seeds; and a traversal fails only when a module file of
\* that closure does not exist.
C1_SeenIsClosure ==
    /\ TraversalOver => seen_modules = Required
    /\ pc = "crashed" => \E p \in Required : p \notin DOMAIN fs

\* C1, witness: from the one seed a, the chain a -> b -> c was closed.
C1_Witness ==
    /\ pc = "done"
    /\ Seeds = {PathA}
    /\ References(PathA) = {PathB}
    /\ References(PathB) = {PathC}
    /\ seen_modules = {PathA, PathB, PathC}

\* C2: the traversal loop ends, also on graphs with cycles: while it runs
\* and when it fails, the turns it has taken and the modules on the
\* frontier are never more than TurnBound,
\* a number fixed by the inputs, and a turn can always be taken while the
\* frontier is not empty; the loop is left for the emit phase only with the
\* frontier empty; and for the cycle of two modules the required set is
\* exactly those two.
C2_CyclesTerminate ==
    /\ pc \in {"traverse", "crashed"} => Len(TraversalOpens) + Len(q) <= TurnBound
    /\ (pc = "traverse" /\ q # <<>>) => Len(opened) < MaxOpens
    /\ pc = "emit" => q = <<>>
    /\ (TwoCycle /\ TraversalOver) => seen_modules = {PathA, PathB}

\* C2, witness: the traversal of the cycle a <-> b has ended.
C2_Witness ==
    /\ TwoCycle
    /\ pc = "emit"
    /\ q = <<>>
    /\ seen_modules = {PathA, PathB}

\* C3: a successful run appends exactly one block for every module of the
\* required closure that the entry file does not embed, none for a module
\* it embeds, and none for any other module.
C3_OneBlockEach ==
    pc = "done" =>
        /\ NoRepeat(Emitted)
        /\ Range(Emitted) = Required \ existed_module_paths
        /\ SelectSeq(writes, LAMBDA w : StartsWith(w, SKIP_ATTR))
             = [i \in DOMAIN Emitted |-> BlockHead(Stem(Emitted[i]))]
        /\ Appended = Concat(writes)

\* C3, witness: one required module was embedded, another was not.
C3_Witness ==
    /\ pc = "done"
    /\ Required \cap existed_module_paths # {}
    /\ Required \ existed_module_paths # {}
    /\ Emitted # <<>>

\* C4: when every required module is embedded already (an empty seed list
\* included), the run leaves the content of the entry file as it was.
C4_NothingAppended ==
    (pc = "done" /\ Required \subseteq existed_module_paths)
        => fs[bin_path] = before[bin_path]

\* C5: when the entry file or any seed, at whatever position, is no
\* regular file, main() prints a missing path and returns: no file is
\* opened, nothing is written, no file changes.  Only then does it print.
C5_MissingFileAborts ==
    /\ (\E i \in DOMAIN Checked : Checked[i] \notin DOMAIN fs) =>
          /\ pc \in {"start", "invalid"}
          /\ opened = <<>>
          /\ writes = <<>>
          /\ fs = before
          /\ pc = "invalid" =>
                /\ Len(out) = 1
                /\ out[1] \in Range(Checked)
                /\ out[1] \notin DOMAIN fs
    /\ (\A i \in DOMAIN Checked : Checked[i] \in DOMAIN fs) =>
          pc # "invalid" /\ out = <<>>

\* C5, witness: the entry file and the first seed exist, the second seed
\* does not, and main() has returned.
C5_Witness ==
    /\ pc = "invalid"
    /\ Len(Checked) = 3
    /\ Checked[1] \in DOMAIN fs
    /\ Checked[2] \in DOMAIN fs
    /\ Checked[3] \notin DOMAIN fs

\* C6, as claimed: the text appended by a successful run is a newline and,
\* per block, the attribute line, the line pub mod <stem> {, a line for
\* every retained transformed line, and a line with the closing brace.
C6_LinePerLine ==
    pc = "done" =>
        SplitLines(Appended)
            = <<NL>> \o Concat([i \in DOMAIN Emitted |-> BlockLinesPerLine(Emitted[i])])

\* C6, amended: the text appended by a successful run is a newline and, per
\* block, two lines: the attribute line, and one line that holds
\* pub mod <stem> {, every retained transformed line in source order with
\* nothing between them, and the closing brace.
C6_OneLineBlock ==
    pc = "done" =>
        SplitLines(Appended)
            = <<NL>> \o Concat([i \in DOMAIN Emitted |-> BlockLines(Emitted[i])])

\* C6, witness: a block was appended for a module with two retained lines
\* that are not empty.
C6_Witness ==
    /\ pc = "done"
    /\ Emitted # <<>>
    /\ \E i, j \in DOMAIN Contributions(fs[Emitted[1]]) :
          /\ i < j
          /\ Contributions(fs[Emitted[1]])[i] # <<>>
          /\ Contributions(fs[Emitted[1]])[j] # <<>>

\* C7: between the opening and the closing of a block, the run writes for
\* every line of the module file without the comment marker its text
\* without the line terminator and with every maximal run of whitespace
\* replaced by one space, and nothing for a line with the marker.
C7_LineContribution ==
    pc = "done" =>
        writes = <<NL>> \o Concat([i \in DOMAIN Emitted |->
                    <<BlockHead(Stem(Emitted[i]))>>
                    \o Contributions(fs[Emitted[i]])
                    \o <<BlockEnd>>])

\* C7, witness: a block was written for a module with a line that holds the
\* marker after other text, and a retained line whose whitespace was
\* collapsed.
C7_Witness ==
    /\ pc = "done"
    /\ Emitted # <<>>
    /\ \E l \in Range(SplitLines(fs[Emitted[1]])) : Marked(l) /\ ~StartsWith(l, COMMENT)
    /\ \E l \in Range(SplitLines(fs[Emitted[1]])) :
          ~Marked(l) /\ Collapsed(Unterminated(l)) # Unterminated(l)

\* C8: in a later run on the same entry file, a module whose block an
\* earlier run appended gets a block again exactly when the scan of the
\* entry file does not find it embedded, and that is exactly when the
\* module's emitted body holds " {": the greedy pattern then takes the name
\* up to the last " {" of the one-line block.
C8_SecondRun ==
    (pc = "done" /\ run > 1) =>
        \A p \in Required :
            Contains(before[bin_path], Concat(BlockLines(p))) =>
                /\ p \in Range(Emitted) <=> p \notin existed_module_paths
                /\ p \in Range(Emitted)
                      <=> Contains(Concat(Contributions(fs[p])), OPEN_BRACE)

\* C8, witness: the second run appended the block of module a again.
C8_Witness ==
    /\ pc = "done"
    /\ run = 2
    /\ Contains(before[bin_path], Concat(BlockLines(PathA)))
    /\ PathA \in Range(Emitted)

\* C8, the other case: the second run found the block of module a, whose
\* body is not empty, and appended no block.
C8_RecoveredCase ==
    /\ pc = "done"
    /\ run = 2
    /\ Contains(before[bin_path], Concat(BlockLines(PathA)))
    /\ Concat(Contributions(fs[PathA])) # <<>>
    /\ PathA \in existed_module_paths
    /\ Emitted = <<>>

\* C9: in a run no path is on the frontier twice, and no module file is
\* opened twice by the traversal.
C9_VisitedOnce ==
    /\ NoRepeat(q)
    /\ NoRepeat(TraversalOpens)

\* C10: a run that fails on a missing module fails in the traversal, on the
\* open of a file that does not exist, before the entry file is opened for
\* appending and with every file as it was; and no run reaches the emit
\* phase with a module of the required closure missing.
C10_MissingDependency ==
    /\ pc = "crashed" =>
          /\ fs = before
          /\ writes = <<>>
          /\ \A i \in DOMAIN opened : opened[i][2] = "r"
          /\ opened[Len(opened)][1] \notin DOMAIN fs
    /\ TraversalOver => \A p \in Required : p \in DOMAIN fs

\* C10, witness: the run failed on a module that is no seed.
C10_Witness ==
    /\ pc = "crashed"
    /\ opened[Len(opened)][1] \notin Seeds
    /\ opened[Len(opened)][1] \in Required

====
